---- MODULE Spec2Model ----
(***************************************************************************)
(* A model of the appointment booking UI: the CalendarScheduler widget,    *)
(* the NewAppointmentForm that embeds it, and the AppointmentsPage         *)
(* dashboard, each talking to the remote service through the api client.   *)
(*                                                                         *)
(* One component is mounted per behaviour (variable mounted):              *)
(*   "scheduler"  CalendarScheduler alone, with arbitrary props            *)
(*   "form"       NewAppointmentForm with its embedded CalendarScheduler   *)
(*   "page"       AppointmentsPage                                         *)
(***************************************************************************)
EXTENDS Integers, Sequences, FiniteSets, TLC

VARIABLES
  mounted,        \* which component this behaviour follows
  now,            \* the wall clock read by new Date(): [day, tod]
  tz,             \* hours the local time zone is ahead of UTC
  ticks,          \* how often the clock has advanced
  \* ---- CalendarScheduler (calendar-scheduler.tsx) ----
  timeSlots,      \* prop timeSlots when the scheduler is mounted alone
  ddMode,         \* prop disabledDates: "none" (not given) or "past"
  currentMonth,   \* useState currentMonth
  selectedDate,   \* useState selectedDate
  selectedTime,   \* useState selectedTime
  sched,          \* what the scheduler's last handler did and the callbacks it invoked
  \* ---- NewAppointmentForm (NewAppointmentForm.tsx) ----
  dentist,        \* useState dentist: "null" until getDentist answers
  date,           \* useState date
  time,           \* useState time
  serviceId,      \* useState serviceId
  patientName,    \* useState patientName
  patientPhone,   \* useState patientPhone
  availableSlots, \* useState availableSlots
  isLoading,      \* useState isLoading
  dentistReq,     \* the getDentist request of the mount effect: "pending" or "done"
  slotReqs,       \* the dates of the getAvailableSlots requests in flight
  run,            \* the handleSubmit run in progress: where it awaits, what it captured
  submits,        \* how often handleSubmit passed its presence check
  calls,          \* how often each api call of handleSubmit was issued
  serverPatients, \* the remote service's patient records
  serverBookings, \* the appointments the remote service created
  confirms,       \* the (date, time) pairs the scheduler's onConfirm delivered to the form
  slotFailed,     \* some getAvailableSlots request was rejected
  \* ---- AppointmentsPage (AppointmentsPage.tsx) ----
  authDentist,    \* useAuth().dentist: "null" or the dentist's id
  appointments,   \* useState appointments
  filteredAppointments, \* useState filteredAppointments
  filter,         \* useState filter
  pageLoading,    \* useState isLoading of the page
  effectPending,  \* the applyFilter effect is due: filter or appointments changed
  serverAppointments, \* the remote service's appointment records
  updates,        \* the updateAppointment requests in flight
  loads,          \* the loadAppointments requests in flight, with the answer once served
  statusChanges,  \* how often handleStatusChange ran with a dentist present
  updateCalls,    \* how often updateAppointment was issued
  authChanges,    \* how often the signed-in dentist changed
  failed,         \* some request of the page has failed
  kept,           \* optimistic statuses whose update failed and whose reload failed too
  \* ---- what the last step did, for either component ----
  obs             \* [op, outcome, issued, toast, onSuccess]

schedVars == <<timeSlots, ddMode, currentMonth, selectedDate, selectedTime, sched>>
clockVars == <<now, tz, ticks>>
formState == <<dentist, date, time, serviceId, patientName, patientPhone, availableSlots, isLoading>>
formVars == <<formState, dentistReq, slotReqs, run, submits, calls, serverPatients, serverBookings,
              confirms, slotFailed>>
pageState == <<authDentist, appointments, filteredAppointments, filter, pageLoading, effectPending>>
pageVars == <<pageState, serverAppointments, updates, loads, statusChanges, updateCalls, authChanges,
              failed, kept>>

-----------------------------------------------------------------------------
(* Bounds of the model *)

MaxTicks == 1      \* clock advances per behaviour
MaxNav == 1        \* month-navigation presses away from the current month
MaxAhead == 2      \* day buttons pressed lie at most this many days after today
MaxSlotButtons == 2 \* time-slot buttons pressed are among the first ones of the panel
MaxSubmits == 2    \* handleSubmit runs that pass the presence check, per behaviour
MaxInFlight == 2   \* getAvailableSlots requests in flight at once
MaxStatusChanges == 2 \* handleStatusChange invocations with a dentist present
MaxAuthChanges == 1   \* changes of the signed-in dentist
MaxConfirms == 1   \* distinct (date, time) pairs confirmed per behaviour

-----------------------------------------------------------------------------
(* Dates.  A JavaScript Date is [day, tod, ref]: day counts local calendar  *)
(* days from 2025-01-01 (day 0), tod is the local hour of day (0 midnight,  *)
(* 23 stands for 23:59:59.999), ref tells apart Date objects that React     *)
(* compares by identity.                                                    *)

EpochYear == 2025
EpochWeekday == 3            \* 2025-01-01 is a Wednesday (getDay() = 3)
TODs == {0, 10, 23}

MkDate(d, t, r) == [day |-> d, tod |-> t, ref |-> r]
undefined == MkDate(-1, 0, "undefined")
isDefined(d) == d # undefined

IsLeap(y) == (y % 4 = 0 /\ y % 100 # 0) \/ y % 400 = 0
DaysInYear(y) == IF IsLeap(y) THEN 366 ELSE 365
DaysInMonth(y, m) ==
  IF m = 2 THEN (IF IsLeap(y) THEN 29 ELSE 28)
  ELSE IF m \in {4, 6, 9, 11} THEN 30 ELSE 31

RECURSIVE YearFrom(_, _)
YearFrom(n, y) == IF n < DaysInYear(y) THEN <<y, n>> ELSE YearFrom(n - DaysInYear(y), y + 1)

RECURSIVE MonthFrom(_, _, _)
MonthFrom(n, y, m) ==
  IF n < DaysInMonth(y, m) THEN <<m, n + 1>> ELSE MonthFrom(n - DaysInMonth(y, m), y, m + 1)

\* the calendar date <<year, month, dayOfMonth>> of day number n, tabulated
\* for the three years from the epoch
Calendar ==
  [n \in 0..1094 |->
     LET yr == YearFrom(n, EpochYear)
         md == MonthFrom(yr[2], yr[1], 1)
     IN  <<yr[1], md[1], md[2]>>]
YMD(n) == Calendar[n]

\* date-fns addDays: moves the calendar day, keeps the local time of day
addDays(dt, k) == MkDate(dt.day + k, dt.tod, "grid")
\* date-fns startOfMonth / endOfMonth
startOfMonth(dt) == MkDate(dt.day - (YMD(dt.day)[3] - 1), 0, "grid")
endOfMonth(dt) ==
  LET c == YMD(dt.day)
  IN  MkDate(dt.day - (c[3] - 1) + DaysInMonth(c[1], c[2]) - 1, 23, "grid")
\* date-fns getDay: 0 is Sunday
getDay(dt) == (EpochWeekday + dt.day) % 7
getMonth(dt) == YMD(dt.day)[2]
isSameDay(a, b) == a.day = b.day
\* a < b on Dates (by instant)
isBefore(a, b) == a.day < b.day \/ (a.day = b.day /\ a.tod < b.tod)

\* new Date()
NewDate(r) == MkDate(now.day, now.tod, r)

-----------------------------------------------------------------------------
(* Strings are sequences of one-character strings. *)

Digit(k) == CASE k = 0 -> "0" [] k = 1 -> "1" [] k = 2 -> "2" [] k = 3 -> "3"
              [] k = 4 -> "4" [] k = 5 -> "5" [] k = 6 -> "6" [] k = 7 -> "7"
              [] k = 8 -> "8" [] k = 9 -> "9"
Pad2(k) == <<Digit(k \div 10), Digit(k % 10)>>
Pad4(k) == <<Digit(k \div 1000), Digit((k \div 100) % 10)>> \o Pad2(k % 100)

\* String.prototype.charCodeAt(0) for the characters that occur
charCodeAt(c) == CASE c = "-" -> 45 [] c = ":" -> 58
                   [] c = "0" -> 48 [] c = "1" -> 49 [] c = "2" -> 50 [] c = "3" -> 51
                   [] c = "4" -> 52 [] c = "5" -> 53 [] c = "6" -> 54 [] c = "7" -> 55
                   [] c = "8" -> 56 [] c = "9" -> 57

\* the characters of a time-slot string "HH:00"; a slot is named by its string
DefaultSlots == <<"08:00", "09:00", "10:00", "11:00", "13:00", "14:00", "15:00", "16:00", "17:00">>
SlotHour(s) == CASE s = "08:00" -> 8 [] s = "09:00" -> 9 [] s = "10:00" -> 10
                 [] s = "11:00" -> 11 [] s = "13:00" -> 13 [] s = "14:00" -> 14
                 [] s = "15:00" -> 15 [] s = "16:00" -> 16 [] s = "17:00" -> 17
split(s) == Pad2(SlotHour(s)) \o <<":", "0", "0">>

\* Date.prototype.toISOString().split('T')[0]: the UTC calendar date
UtcDay(dt) ==
  LET h == dt.tod - tz
  IN  IF h < 0 THEN dt.day - 1 ELSE IF h >= 24 THEN dt.day + 1 ELSE dt.day
toISODate(dt) ==
  LET c == YMD(UtcDay(dt))
  IN  Pad4(c[1]) \o <<"-">> \o Pad2(c[2]) \o <<"-">> \o Pad2(c[3])

RECURSIVE reduceCharCodes(_, _)
reduceCharCodes(chars, acc) ==
  IF chars = <<>> THEN acc
  ELSE reduceCharCodes(Tail(chars), acc + charCodeAt(Head(chars)))

-----------------------------------------------------------------------------
(* calendar-scheduler.tsx: availability helpers *)

getDateAvailability(dt) ==
  LET dateStr == toISODate(dt)
      hash == reduceCharCodes(dateStr, 0)
  IN  hash % 5 # 0

getTimeSlotAvailability(dt, tm) ==
  LET dateStr == toISODate(dt)
  IN  IF ~getDateAvailability(dt) THEN FALSE
      ELSE LET combined == dateStr \o <<"-">> \o split(tm)
               hash == reduceCharCodes(combined, 0)
           IN  hash % 2 = 0

hasAvailableSlots(dt, slots) ==
  \E i \in 1..Len(slots) : getTimeSlotAvailability(dt, slots[i])

-----------------------------------------------------------------------------
(* CalendarScheduler: props, derived values *)

DayNumber(y, m, d) == CHOOSE n \in DOMAIN Calendar : Calendar[n] = <<y, m, d>>

\* the timeSlots prop: the form passes availableSlots (NewAppointmentForm.tsx:161)
timeSlotsProp == IF mounted = "form" THEN availableSlots ELSE timeSlots

slotsToUse == IF Len(timeSlotsProp) > 0 THEN timeSlotsProp ELSE DefaultSlots

\* the disabledDates prop, disabledDates?.(date): absent, or the form's
\* d < new Date() (NewAppointmentForm.tsx:162)
disabledDates(dt) ==
  CASE ddMode = "none" -> FALSE
    [] ddMode = "past" -> isBefore(dt, NewDate("tmp"))

monthStart == startOfMonth(currentMonth)
monthEnd == endOfMonth(currentMonth)
firstDayOfWeek == getDay(monthStart)
calendarDays == [i \in 1..(monthEnd.day - monthStart.day + 1) |-> addDays(monthStart, i - 1)]
prevMonthDays == [i \in 1..firstDayOfWeek |-> addDays(monthStart, -(firstDayOfWeek - (i - 1)))]
allDays == prevMonthDays \o calendarDays
\* a grid completed to five weeks only
remainingDays_FiveWeeks == 35 - Len(allDays)

remainingDays == 42 - Len(allDays)
nextMonthDays == [i \in 1..remainingDays |-> addDays(monthEnd, (i - 1) + 1)]
gridDays == allDays \o nextMonthDays

\* today = new Date(); today.setHours(0, 0, 0, 0)
today == MkDate(now.day, 0, "tmp")

\* the disabled attribute of a day button, as rendered
dayButtonDisabled(day) ==
  LET isCurrentMonth == getMonth(day) = getMonth(currentMonth)
      isPastDate == isBefore(day, today)
      isExternallyDisabled == disabledDates(day)
      dayHasAvailableSlots ==
        isCurrentMonth /\ ~isPastDate /\ ~isExternallyDisabled /\ hasAvailableSlots(day, slotsToUse)
  IN  ~dayHasAvailableSlots \/ isExternallyDisabled \/ isPastDate

\* the day buttons the model presses: the grid days around today
ClickDays ==
  LET grid == gridDays
  IN  {grid[i] : i \in {j \in 1..Len(grid) :
         grid[j].day >= now.day - 1 /\ grid[j].day <= now.day + MaxAhead}}

\* the time-slot buttons the model presses
ClickSlots ==
  {slotsToUse[i] : i \in {j \in 1..Len(slotsToUse) : j <= MaxSlotButtons}}

NoTime == ""
\* recorded for the scheduler mounted alone, where the callbacks have no other effect
SchedEvent(op, arg, changed, confirmed) ==
  IF mounted = "scheduler"
  THEN [op |-> op, date |-> arg, onDateChange |-> changed, onConfirm |-> confirmed]
  ELSE [op |-> "other", date |-> undefined, onDateChange |-> FALSE,
        onConfirm |-> [date |-> undefined, time |-> ""]]
NoConfirm == [date |-> undefined, time |-> NoTime]

-----------------------------------------------------------------------------
(* The callbacks the parent passes to the scheduler *)

\* what a step shows to the outside: the handler or response it ran, its
\* outcome, the api requests it issued, the toast it raised, and whether it
\* called onSuccess
Obs(op, outcome, issued, toast, success) ==
  [op |-> op, outcome |-> outcome, issued |-> issued, toast |-> toast, onSuccess |-> success]
Quiet(op) == Obs(op, "ok", {}, "none", FALSE)

\* NewAppointmentForm.tsx:50-55: the effect on [date, dentist] and the guard of
\* loadAvailableSlots; the requests in flight after the effect ran
loadAvailableSlots(d, den) ==
  IF isDefined(d) /\ den # "null" THEN slotReqs \cup {d} ELSE slotReqs

\* NewAppointmentForm.tsx:163: onDateChange={(d) => setDate(d)}; the grid's
\* Date is a new object, so the effect on [date, dentist] runs
FormOnDateChange(d) ==
  /\ Cardinality(loadAvailableSlots(d, dentist)) <= MaxInFlight
  /\ date' = d
  /\ slotReqs' = loadAvailableSlots(d, dentist)
  /\ obs' = Obs("other", "ok",
               IF slotReqs' # slotReqs THEN {"getAvailableSlots"} ELSE {}, "none", FALSE)
  /\ UNCHANGED <<dentist, time, serviceId, patientName, patientPhone, availableSlots, isLoading,
                 dentistReq, confirms, slotFailed, run, submits, calls, serverPatients, serverBookings>>

\* NewAppointmentForm.tsx:164-167: if (d) setDate(d); if (t) setTime(t); the
\* effect runs when the Date object differs from the one held
FormOnConfirm(d, t) ==
  /\ Cardinality(loadAvailableSlots(d, dentist)) <= MaxInFlight
  /\ date' = IF isDefined(d) THEN d ELSE date
  /\ time' = IF t # NoTime THEN t ELSE time
  /\ slotReqs' = IF date' # date THEN loadAvailableSlots(date', dentist) ELSE slotReqs
  /\ confirms' = confirms \cup {[date |-> d, time |-> t]}
  /\ Cardinality(confirms') <= MaxConfirms
  /\ obs' = Obs("other", "ok",
               IF slotReqs' # slotReqs THEN {"getAvailableSlots"} ELSE {}, "none", FALSE)
  /\ UNCHANGED <<dentist, serviceId, patientName, patientPhone, availableSlots, isLoading,
                 dentistReq, slotFailed, run, submits, calls, serverPatients, serverBookings>>

onDateChange(d) ==
  IF mounted = "form" THEN FormOnDateChange(d) ELSE UNCHANGED <<formVars, obs>>
onConfirm(d, t) ==
  IF mounted = "form" THEN FormOnConfirm(d, t) ELSE UNCHANGED <<formVars, obs>>
\* a scheduler handler that calls nothing of its parent
NoCallback ==
  /\ UNCHANGED formVars
  /\ obs' = IF mounted = "form" THEN Quiet("other") ELSE obs

-----------------------------------------------------------------------------
(* CalendarScheduler: handlers *)

\* handleDateSelect without its first early return
handleDateSelectReturns_NoDisabledCheck(dt) ==
  ~hasAvailableSlots(dt, slotsToUse)

\* lines 75-77: the two early returns of handleDateSelect
handleDateSelectReturns(dt) ==
  disabledDates(dt) \/ ~hasAvailableSlots(dt, slotsToUse)

\* A handler that guards itself is run for every grid day: the disabled
\* attribute is computed when the grid is rendered, the guard when it is pressed.
HandleDateSelect(dt) ==
  /\ mounted \in {"scheduler", "form"}
  /\ IF handleDateSelectReturns(dt)
     THEN /\ UNCHANGED <<selectedDate, selectedTime>>
          /\ sched' = SchedEvent("handleDateSelect", dt, FALSE, NoConfirm)
          /\ NoCallback
     ELSE /\ selectedDate' = dt
          /\ selectedTime' = NoTime
          /\ sched' = SchedEvent("handleDateSelect", dt, TRUE, NoConfirm)
          /\ onDateChange(dt)
  /\ UNCHANGED <<pageVars, mounted, clockVars, timeSlots, ddMode, currentMonth>>

HandlePrevMonth ==
  /\ mounted \in {"scheduler", "form"}
  /\ currentMonth.day - 32 >= now.day - 32 * MaxNav
  /\ currentMonth' = addDays(currentMonth, -32)
  /\ sched' = SchedEvent("other", undefined, FALSE, NoConfirm)
  /\ NoCallback
  /\ UNCHANGED <<pageVars, mounted, clockVars, timeSlots, ddMode, selectedDate, selectedTime>>

HandleNextMonth ==
  /\ mounted \in {"scheduler", "form"}
  /\ currentMonth.day + 32 <= now.day + 32 * MaxNav
  /\ currentMonth' = addDays(currentMonth, 32)
  /\ sched' = SchedEvent("other", undefined, FALSE, NoConfirm)
  /\ NoCallback
  /\ UNCHANGED <<pageVars, mounted, clockVars, timeSlots, ddMode, selectedDate, selectedTime>>

\* lines 192-202: a time-slot button of the panel shown for selectedDate
TimeSlotClick(slot) ==
  /\ mounted \in {"scheduler", "form"}
  /\ isDefined(selectedDate)
  /\ LET isAvailable == getTimeSlotAvailability(selectedDate, slot)
     IN  selectedTime' = IF isAvailable THEN slot ELSE selectedTime
  /\ sched' = SchedEvent("other", undefined, FALSE, NoConfirm)
  /\ NoCallback
  /\ UNCHANGED <<pageVars, mounted, clockVars, timeSlots, ddMode, currentMonth, selectedDate>>

\* lines 223-233: Reinitialiser
ResetClick ==
  /\ mounted \in {"scheduler", "form"}
  /\ selectedDate' = undefined
  /\ selectedTime' = NoTime
  /\ currentMonth' = NewDate("month")
  /\ sched' = SchedEvent("other", undefined, FALSE, NoConfirm)
  /\ NoCallback
  /\ UNCHANGED <<pageVars, mounted, clockVars, timeSlots, ddMode>>

\* lines 234-240: Confirmer, disabled={!selectedDate || !selectedTime}
ConfirmClick ==
  /\ mounted \in {"scheduler", "form"}
  /\ ~(~isDefined(selectedDate) \/ selectedTime = NoTime)
  /\ sched' = SchedEvent("confirm", undefined, FALSE,
                         [date |-> selectedDate, time |-> selectedTime])
  /\ onConfirm(selectedDate, selectedTime)
  /\ UNCHANGED <<pageVars, mounted, clockVars, timeSlots, ddMode, currentMonth, selectedDate, selectedTime>>

\* the clock advances: morning, late evening, next morning
Tick ==
  /\ ticks < MaxTicks
  /\ ticks' = ticks + 1
  /\ now' = IF now.tod < 23 THEN [now EXCEPT !.tod = 23]
            ELSE [day |-> now.day + 1, tod |-> 10]
  /\ obs' = IF mounted = "scheduler" THEN obs ELSE Quiet("other")
  /\ ~effectPending
  /\ UNCHANGED <<mounted, tz, schedVars, formVars, pageVars>>

-----------------------------------------------------------------------------

\* the behaviours start on 2026-01-30, in the morning or late in the evening
StartInstants == {[day |-> DayNumber(2026, 1, 30), tod |-> t] : t \in {10, 23}}
TimeZones == {-5, 0, 2}
SlotProps == {<<>>, <<"08:00">>}

IdleRun == [pc |-> "idle", date |-> undefined, time |-> NoTime, phone |-> "",
            returned |-> <<>>, found |-> 0, created |-> 0, patientId |-> 0]
NoCalls == [createPatient |-> 0, createAppointment |-> 0]

\* the form's variables when no form is mounted
FormUnmounted ==
  /\ dentist = "null" /\ date = undefined /\ time = NoTime
  /\ serviceId = "" /\ patientName = "" /\ patientPhone = ""
  /\ availableSlots = <<>> /\ isLoading = FALSE
  /\ dentistReq = "done" /\ slotReqs = {} /\ run = IdleRun
  /\ submits = 0 /\ calls = NoCalls
  /\ serverPatients = <<>> /\ serverBookings = <<>>
  /\ confirms = {} /\ slotFailed = FALSE
  /\ obs = Quiet("other")

\* the page's variables when no page is mounted
PageUnmounted ==
  /\ authDentist = "null" /\ appointments = <<>> /\ filteredAppointments = <<>>
  /\ filter = "all" /\ pageLoading = FALSE /\ effectPending = FALSE
  /\ serverAppointments = <<>> /\ updates = <<>> /\ loads = <<>>
  /\ statusChanges = 0 /\ updateCalls = 0 /\ authChanges = 0
  /\ failed = FALSE /\ kept = {}

InitClock ==
  /\ now \in StartInstants
  /\ tz \in TimeZones
  /\ ticks = 0

InitSched ==
  /\ mounted = "scheduler"
  /\ InitClock
  /\ timeSlots \in SlotProps
  /\ ddMode \in {"none", "past"}
  /\ currentMonth = NewDate("month")
  /\ selectedDate = NewDate("sched")
  /\ selectedTime = NoTime
  /\ sched = SchedEvent("other", undefined, FALSE, NoConfirm)
  /\ FormUnmounted
  /\ PageUnmounted

NextSched ==
  \/ \E d \in ClickDays : HandleDateSelect(d)
  \/ HandlePrevMonth
  \/ HandleNextMonth
  \/ \E slot \in ClickSlots : TimeSlotClick(slot)
  \/ ResetClick
  \/ ConfirmClick
  \/ mounted = "scheduler" /\ Tick

vars == <<mounted, clockVars, schedVars, formVars, pageVars, obs>>

-----------------------------------------------------------------------------
(* NewAppointmentForm *)

DentistId == "d1"
Phones == {"p1"}

\* the remote service's answer to getAvailableSlots(dentist.id, date): it
\* depends on the day asked for
ServerSlots(d) == IF d.day % 2 = 0 THEN <<"09:00", "10:00">> ELSE <<"08:00", "09:00">>

\* lines 39-47: load() of the mount effect; setDentist runs the effect on
\* [date, dentist]
GetDentistOk ==
  /\ mounted = "form" /\ dentistReq = "pending"
  /\ dentistReq' = "done"
  /\ dentist' = DentistId
  /\ slotReqs' = loadAvailableSlots(date, dentist')
  /\ obs' = Obs("getDentist", "ok",
               IF slotReqs' # slotReqs THEN {"getAvailableSlots"} ELSE {}, "none", FALSE)
  /\ UNCHANGED <<pageVars, mounted, clockVars, schedVars, date, time, serviceId, patientName, patientPhone,
                 availableSlots, isLoading, run, submits, calls, serverPatients, serverBookings,
                 confirms, slotFailed>>

\* lines 43-45: catch (e) { // ignore }
GetDentistFail ==
  /\ mounted = "form" /\ dentistReq = "pending"
  /\ dentistReq' = "done"
  /\ obs' = Obs("getDentist", "fail", {}, "none", FALSE)
  /\ UNCHANGED <<pageVars, mounted, clockVars, schedVars, formState, slotReqs, run, submits, calls,
                 serverPatients, serverBookings, confirms, slotFailed>>

\* lines 57-59: the answer to a getAvailableSlots request arrives
GetAvailableSlotsOk(req) ==
  /\ mounted = "form" /\ req \in slotReqs
  /\ slotReqs' = slotReqs \ {req}
  /\ availableSlots' = ServerSlots(req)
  /\ time' = NoTime
  /\ obs' = Quiet("getAvailableSlots")
  /\ UNCHANGED <<pageVars, mounted, clockVars, schedVars, dentist, date, serviceId, patientName, patientPhone,
                 isLoading, dentistReq, confirms, slotFailed, run, submits, calls, serverPatients, serverBookings>>

\* lines 60-63: console.error, setAvailableSlots([])
GetAvailableSlotsFail(req) ==
  /\ mounted = "form" /\ req \in slotReqs
  /\ slotReqs' = slotReqs \ {req}
  /\ availableSlots' = <<>>
  /\ slotFailed' = TRUE
  /\ obs' = Obs("getAvailableSlots", "fail", {}, "none", FALSE)
  /\ UNCHANGED <<pageVars, mounted, clockVars, schedVars, dentist, date, time, serviceId, patientName,
                 patientPhone, isLoading, dentistReq, confirms, run, submits, calls, serverPatients,
                 serverBookings>>

\* lines 113, 117, 135: the inputs of the form; the service list comes from
\* the dentist
SetPatientName(v) ==
  /\ mounted = "form" /\ patientName # v
  /\ patientName' = v
  /\ obs' = Quiet("other")
  /\ UNCHANGED <<pageVars, mounted, clockVars, schedVars, dentist, date, time, serviceId, patientPhone,
                 availableSlots, isLoading, dentistReq, confirms, slotFailed, slotReqs, run, submits, calls,
                 serverPatients, serverBookings>>

SetPatientPhone(v) ==
  /\ mounted = "form" /\ patientPhone # v
  /\ patientPhone' = v
  /\ obs' = Quiet("other")
  /\ UNCHANGED <<pageVars, mounted, clockVars, schedVars, dentist, date, time, serviceId, patientName,
                 availableSlots, isLoading, dentistReq, confirms, slotFailed, slotReqs, run, submits, calls,
                 serverPatients, serverBookings>>

SetServiceId(v) ==
  /\ mounted = "form" /\ dentist # "null" /\ serviceId # v
  /\ serviceId' = v
  /\ obs' = Quiet("other")
  /\ UNCHANGED <<pageVars, mounted, clockVars, schedVars, dentist, date, time, patientName, patientPhone,
                 availableSlots, isLoading, dentistReq, confirms, slotFailed, slotReqs, run, submits, calls,
                 serverPatients, serverBookings>>

\* the presence check without its test of patientPhone
missingField_PhoneNotChecked ==
  ~isDefined(date) \/ time = NoTime \/ serviceId = "" \/ patientName = ""

\* line 68: the presence check
missingField ==
  ~isDefined(date) \/ time = NoTime \/ serviceId = "" \/ patientName = "" \/ patientPhone = ""

\* lines 66-75: handleSubmit up to its first await; the submit button is
\* disabled while isLoading (line 180)
HandleSubmit ==
  /\ mounted = "form" /\ ~isLoading
  /\ IF missingField
     THEN /\ obs' = Obs("handleSubmit", "rejected", {}, "error", FALSE)
          /\ UNCHANGED <<isLoading, run, calls, submits>>
     ELSE /\ submits < MaxSubmits
          /\ submits' = submits + 1
          /\ isLoading' = TRUE
          /\ run' = [IdleRun EXCEPT !.pc = "getPatients", !.date = date, !.time = time,
                                     !.phone = patientPhone]
          /\ UNCHANGED calls
          /\ obs' = Obs("handleSubmit", "ok", {"getPatients"}, "none", FALSE)
  /\ UNCHANGED <<pageVars, mounted, clockVars, schedVars, dentist, date, time, serviceId, patientName,
                 patientPhone, availableSlots, dentistReq, confirms, slotFailed, slotReqs, serverPatients, serverBookings>>

\* a lookup that never finds the phone
find_NoMatch(patients, phone) == 0

\* line 76: patients.find((p) => p.phone === patientPhone): the id of the first
\* match, 0 when there is none
find(patients, phone) ==
  LET hits == {i \in 1..Len(patients) : patients[i].phone = phone}
  IN  IF hits = {} THEN 0
      ELSE patients[CHOOSE i \in hits : \A j \in hits : i <= j].id

\* line 85: the createAppointment request of a run that holds patient id
createAppointmentRequest(r, id) ==
  [dentistId |-> DentistId, patientId |-> id, date |-> r.date, time |-> r.time,
   status |-> "scheduled"]

\* a handleSubmit that would refuse a (dentist, date, time) already booked
proceeds_UnlessBooked(r, id) ==
  /\ id # 0
  /\ ~\E k \in 1..Len(serverBookings) :
        /\ serverBookings[k].dentistId = DentistId
        /\ serverBookings[k].date = r.date /\ serverBookings[k].time = r.time

\* lines 80-85: with a patient the run goes on to createAppointment
proceeds(r, id) == id # 0

\* lines 80-85: the second test of patient and the createAppointment call, for
\* a run r that got patient id (0: none) from the answer of api
withPatient(api, outcome, r, id) ==
  IF proceeds(r, id)
  THEN /\ run' = [r EXCEPT !.pc = "createAppointment", !.patientId = id]
       /\ calls' = [calls EXCEPT !.createAppointment = @ + 1]
       /\ obs' = Obs(api, outcome, {"createAppointment"}, "none", FALSE)
       /\ UNCHANGED isLoading
  ELSE /\ run' = IdleRun
       /\ isLoading' = FALSE
       /\ obs' = Obs(api, outcome, {}, "error", FALSE)
       /\ UNCHANGED calls

\* a catch block that shows nothing
SubmitFailed_Silent(api) ==
  /\ obs' = Obs(api, "fail", {}, "none", FALSE)
  /\ isLoading' = FALSE
  /\ run' = IdleRun
  /\ UNCHANGED <<calls, serverPatients, serverBookings>>

\* a catch block that issues the failed call again
SubmitFailed_Retry(api) ==
  /\ obs' = Obs(api, "fail", {api}, "error", FALSE)
  /\ calls' = IF api \in DOMAIN calls THEN [calls EXCEPT ![api] = @ + 1] ELSE calls
  /\ UNCHANGED <<isLoading, run, serverPatients, serverBookings>>

\* a catch block with no finally block after it
SubmitFailed_NoFinally(api) ==
  /\ obs' = Obs(api, "fail", {}, "error", FALSE)
  /\ run' = IdleRun
  /\ UNCHANGED <<isLoading, calls, serverPatients, serverBookings>>

\* lines 88-93: catch and finally of handleSubmit
SubmitFailed(api) ==
  /\ obs' = Obs(api, "fail", {}, "error", FALSE)
  /\ isLoading' = FALSE
  /\ run' = IdleRun
  /\ UNCHANGED <<calls, serverPatients, serverBookings>>

\* lines 75-79: getPatients answers
GetPatientsOk ==
  /\ mounted = "form" /\ run.pc = "getPatients"
  /\ LET patients == serverPatients
         patient == find(patients, run.phone)
     IN  IF patient = 0
         THEN /\ run' = [run EXCEPT !.pc = "createPatient", !.returned = patients]
              /\ calls' = [calls EXCEPT !.createPatient = @ + 1]
              /\ obs' = Obs("getPatients", "ok", {"createPatient"}, "none", FALSE)
              /\ UNCHANGED isLoading
         ELSE withPatient("getPatients", "ok",
                          [run EXCEPT !.returned = patients, !.found = patient], patient)
  /\ UNCHANGED <<pageVars, mounted, clockVars, schedVars, dentist, date, time, serviceId,
                 patientName, patientPhone, availableSlots, dentistReq, confirms, slotFailed, slotReqs, submits,
                 serverPatients, serverBookings>>

GetPatientsFail ==
  /\ mounted = "form" /\ run.pc = "getPatients"
  /\ SubmitFailed("getPatients")
  /\ UNCHANGED <<pageVars, mounted, clockVars, schedVars, dentist, date, time, serviceId, patientName,
                 patientPhone, availableSlots, dentistReq, confirms, slotFailed, slotReqs, submits>>

\* lines 78-85: createPatient answers, with the new record (its id) or with
\* no patient (0)
CreatePatientAnswer(id) ==
  /\ mounted = "form" /\ run.pc = "createPatient"
  /\ serverPatients' = IF id = 0 THEN serverPatients
                       ELSE Append(serverPatients, [id |-> id, phone |-> run.phone])
  /\ withPatient("createPatient", IF id = 0 THEN "none" ELSE "ok",
                 [run EXCEPT !.created = id], id)
  /\ UNCHANGED <<pageVars, mounted, clockVars, schedVars, dentist, date, time, serviceId,
                 patientName, patientPhone, availableSlots, dentistReq, confirms, slotFailed, slotReqs, submits,
                 serverBookings>>

CreatePatientFail ==
  /\ mounted = "form" /\ run.pc = "createPatient"
  /\ SubmitFailed("createPatient")
  /\ UNCHANGED <<pageVars, mounted, clockVars, schedVars, dentist, date, time, serviceId, patientName,
                 patientPhone, availableSlots, dentistReq, confirms, slotFailed, slotReqs, submits>>

\* lines 85-87, 91-93: createAppointment answers; toast.success, onSuccess()
CreateAppointmentOk ==
  /\ mounted = "form" /\ run.pc = "createAppointment"
  /\ serverBookings' = Append(serverBookings, createAppointmentRequest(run, run.patientId))
  /\ obs' = Obs("createAppointment", "ok", {}, "success", TRUE)
  /\ isLoading' = FALSE
  /\ run' = IdleRun
  /\ UNCHANGED <<pageVars, mounted, clockVars, schedVars, dentist, date, time, serviceId, patientName,
                 patientPhone, availableSlots, dentistReq, confirms, slotFailed, slotReqs, submits, calls,
                 serverPatients>>

CreateAppointmentFail ==
  /\ mounted = "form" /\ run.pc = "createAppointment"
  /\ SubmitFailed("createAppointment")
  /\ UNCHANGED <<pageVars, mounted, clockVars, schedVars, dentist, date, time, serviceId, patientName,
                 patientPhone, availableSlots, dentistReq, confirms, slotFailed, slotReqs, submits>>

ServerPatientInits ==
  {<<[id |-> 1, phone |-> "p2"]>>,
   <<[id |-> 1, phone |-> "p2"], [id |-> 2, phone |-> "p1"], [id |-> 3, phone |-> "p1"]>>}

InitForm ==
  /\ mounted = "form"
  /\ InitClock
  /\ now.tod = 10 /\ tz = 2
  /\ timeSlots = <<>> /\ ddMode = "past"
  /\ currentMonth = NewDate("month")
  /\ selectedDate = NewDate("sched")
  /\ selectedTime = NoTime
  /\ sched = SchedEvent("other", undefined, FALSE, NoConfirm)
  /\ dentist = "null" /\ date = NewDate("form") /\ time = NoTime
  /\ serviceId = "" /\ patientName = "" /\ patientPhone = ""
  /\ availableSlots = <<>> /\ isLoading = FALSE
  /\ dentistReq = "pending" /\ slotReqs = {} /\ run = IdleRun
  /\ submits = 0 /\ calls = NoCalls
  /\ serverPatients \in ServerPatientInits /\ serverBookings = <<>>
  /\ confirms = {} /\ slotFailed = FALSE
  /\ obs = Quiet("other")
  /\ PageUnmounted

\* The form with its embedded scheduler.  A handleSubmit run reads only the
\* values it captured when it was invoked and writes only isLoading, so every
\* other step commutes with the steps of a run: the model lets a run finish
\* before the next other step (FormIdle).  A behaviour ends with the end of
\* its last run.
FormIdle == run.pc = "idle" /\ submits < MaxSubmits

NextForm ==
  \/ FormIdle /\ GetDentistOk
  \/ FormIdle /\ GetDentistFail
  \/ FormIdle /\ \E req \in slotReqs : GetAvailableSlotsOk(req)
  \/ FormIdle /\ \E req \in slotReqs : GetAvailableSlotsFail(req)
  \/ FormIdle /\ \E v \in {"", "n1"} : SetPatientName(v)
  \/ FormIdle /\ \E v \in Phones \cup {""} : SetPatientPhone(v)
  \/ FormIdle /\ \E v \in {"", "s1"} : SetServiceId(v)
  \/ HandleSubmit
  \/ GetPatientsOk
  \/ GetPatientsFail
  \/ \E id \in {0, Len(serverPatients) + 1} : CreatePatientAnswer(id)
  \/ CreatePatientFail
  \/ CreateAppointmentOk
  \/ CreateAppointmentFail
  \/ FormIdle /\ \E d \in ClickDays : HandleDateSelect(d)
  \/ FormIdle /\ \E slot \in ClickSlots : TimeSlotClick(slot)
  \/ FormIdle /\ ResetClick
  \/ FormIdle /\ ConfirmClick

SpecForm == InitForm /\ [][NextForm]_vars

\* lines 75, 78, 85: the promise a run awaits is settled, fulfilled or rejected
RunAnswer ==
  \/ GetPatientsOk
  \/ GetPatientsFail
  \/ \E id \in {0, Len(serverPatients) + 1} : CreatePatientAnswer(id)
  \/ CreatePatientFail
  \/ CreateAppointmentOk
  \/ CreateAppointmentFail

\* The form where every api call of a run is answered in the end
SpecFormFair == SpecForm /\ WF_vars(RunAnswer)

SpecSched == InitSched /\ [][NextSched]_vars

-----------------------------------------------------------------------------
(* AppointmentsPage *)

Statuses == {"confirmed", "cancelled"}
Filters == {"all", "today", "upcoming", "past"}

\* date-fns isToday / isFuture / isPast of new Date(apt.date)
isToday(d) == d.day = now.day
isFuture(d) == isBefore(now, d)
isPast(d) == isBefore(d, now)

\* a comparator that looks at the date only
compare_DateOnly(a, b) ==
  (a.date.day * 24 + a.date.tod) - (b.date.day * 24 + b.date.tod)

\* lines 92-97: the comparator of filtered.sort; negative when a sorts first
compare(a, b) ==
  IF a.date # b.date
  THEN (a.date.day * 24 + a.date.tod) - (b.date.day * 24 + b.date.tod)
  ELSE SlotHour(a.time) - SlotHour(b.time)

\* Array.prototype.sort: stable, by insertion
RECURSIVE insert(_, _)
insert(sorted, x) ==
  IF sorted = <<>> THEN <<x>>
  ELSE IF compare(x, sorted[Len(sorted)]) >= 0 THEN Append(sorted, x)
  ELSE Append(insert(SubSeq(sorted, 1, Len(sorted) - 1), x), sorted[Len(sorted)])

RECURSIVE sort(_)
sort(seq) ==
  IF seq = <<>> THEN <<>>
  ELSE insert(sort(SubSeq(seq, 1, Len(seq) - 1)), seq[Len(seq)])

\* lines 76-100: applyFilter; the value it gives to filteredAppointments
applyFilter(appts, f) ==
  LET keep(apt) == CASE f = "today" -> isToday(apt.date)
                     [] f = "upcoming" -> isFuture(apt.date)
                     [] f = "past" -> isPast(apt.date)
                     [] OTHER -> TRUE
  IN  sort(SelectSeq(appts, keep))

\* a map that gives the new status to every record
withStatus_EveryRecord(appts, id, newStatus) ==
  [i \in 1..Len(appts) |-> [appts[i] EXCEPT !.status = newStatus]]

\* lines 126-131: prev.map(apt => apt.id === id ? { ...apt, status } : apt)
withStatus(appts, id, newStatus) ==
  [i \in 1..Len(appts) |->
     IF appts[i].id = id THEN [appts[i] EXCEPT !.status = newStatus] ELSE appts[i]]

\* the list shows the status of update u for the appointment u is about
shows(appts, u) == \E k \in 1..Len(appts) : appts[k].id = u.id /\ appts[k].status = u.status

RemoveAt(seq, i) == SubSeq(seq, 1, i - 1) \o SubSeq(seq, i + 1, Len(seq))

\* no update: the load was not called from the catch block of handleStatusChange
NoUpdate == [id |-> "", status |-> ""]

\* lines 60-66: loadAppointments as called from a render that saw dentist den;
\* the requests in flight afterwards.  A load called from the catch block of
\* handleStatusChange remembers the update that failed (revert).
loadAppointments(den, inFlight, revert) ==
  IF den = "null" THEN inFlight
  ELSE Append(inFlight, [phase |-> "sent", data |-> <<>>, revert |-> revert])
loadIssued(den) == IF den = "null" THEN {} ELSE {"getAppointments", "getPatients"}

\* lines 56-58: the effect on [filter, appointments]
ApplyFilterEffect ==
  /\ mounted = "page" /\ effectPending
  /\ filteredAppointments' = applyFilter(appointments, filter)
  /\ effectPending' = FALSE
  /\ obs' = Quiet("applyFilter")
  /\ UNCHANGED <<mounted, clockVars, schedVars, formVars, authDentist, appointments, filter,
                 pageLoading, serverAppointments, updates, loads, statusChanges, updateCalls,
                 authChanges, failed, kept>>

\* line 217: the filter select
SetFilter(f) ==
  /\ mounted = "page" /\ ~effectPending /\ f # filter
  /\ filter' = f
  /\ effectPending' = TRUE
  /\ obs' = Quiet("other")
  /\ UNCHANGED <<mounted, clockVars, schedVars, formVars, authDentist, appointments,
                 filteredAppointments, pageLoading, serverAppointments, updates, loads,
                 statusChanges, updateCalls, authChanges, failed, kept>>

\* lines 52-54: the signed-in dentist changes; the effect on [dentist] loads
AuthChange ==
  /\ mounted = "page" /\ ~effectPending /\ authChanges < MaxAuthChanges
  /\ authChanges' = authChanges + 1
  /\ authDentist' = IF authDentist = "null" THEN DentistId ELSE "null"
  /\ loads' = loadAppointments(authDentist', loads, NoUpdate)
  /\ obs' = Obs("other", "ok", loadIssued(authDentist'), "none", FALSE)
  /\ UNCHANGED <<mounted, clockVars, schedVars, formVars, appointments, filteredAppointments,
                 filter, pageLoading, effectPending, serverAppointments, updates, statusChanges,
                 updateCalls, failed, kept>>

\* lines 122-134: handleStatusChange up to its await, for a row that is shown
HandleStatusChange(id, newStatus) ==
  /\ mounted = "page" /\ ~effectPending
  /\ IF authDentist = "null"
     THEN /\ obs' = Quiet("handleStatusChange")
          /\ UNCHANGED <<appointments, filteredAppointments, effectPending, updates,
                         statusChanges, updateCalls, kept>>
     ELSE /\ statusChanges < MaxStatusChanges
          /\ statusChanges' = statusChanges + 1
          /\ appointments' = withStatus(appointments, id, newStatus)
          /\ filteredAppointments' = withStatus(filteredAppointments, id, newStatus)
          /\ effectPending' = TRUE
          /\ updates' = Append(updates, [id |-> id, status |-> newStatus, dentistId |-> authDentist])
          /\ updateCalls' = updateCalls + 1
          /\ kept' = {e \in kept : e.id # id}
          /\ obs' = Obs("handleStatusChange", "ok", {"updateAppointment"}, "none", FALSE)
  /\ UNCHANGED <<mounted, clockVars, schedVars, formVars, authDentist, filter, pageLoading,
                 serverAppointments, loads, authChanges, failed>>

\* lines 134-137: updateAppointment succeeds; the handler saw a dentist, and so
\* does the loadAppointments of its render
UpdateAppointmentOk(i) ==
  /\ mounted = "page" /\ ~effectPending /\ i \in 1..Len(updates)
  /\ serverAppointments' = withStatus(serverAppointments, updates[i].id, updates[i].status)
  /\ updates' = RemoveAt(updates, i)
  /\ loads' = loadAppointments(updates[i].dentistId, loads, NoUpdate)
  /\ obs' = Obs("updateAppointment", "ok", loadIssued(updates[i].dentistId), "success", FALSE)
  /\ UNCHANGED <<mounted, clockVars, schedVars, formVars, pageState, statusChanges, updateCalls,
                 authChanges, failed, kept>>

\* a catch block that puts the server's records back by itself
UpdateAppointmentFail_RevertsLocally(i) ==
  /\ mounted = "page" /\ ~effectPending /\ i \in 1..Len(updates)
  /\ updates' = RemoveAt(updates, i)
  /\ appointments' = serverAppointments
  /\ loads' = loadAppointments(updates[i].dentistId, loads,
                                [id |-> updates[i].id, status |-> updates[i].status])
  /\ obs' = Obs("updateAppointment", "fail", loadIssued(updates[i].dentistId), "error", FALSE)
  /\ failed' = TRUE
  /\ UNCHANGED <<mounted, clockVars, schedVars, formVars, authDentist, filteredAppointments,
                 filter, pageLoading, effectPending, serverAppointments,
                 statusChanges, updateCalls, authChanges, kept>>

\* lines 138-142: updateAppointment fails
UpdateAppointmentFail(i) ==
  /\ mounted = "page" /\ ~effectPending /\ i \in 1..Len(updates)
  /\ updates' = RemoveAt(updates, i)
  /\ loads' = loadAppointments(updates[i].dentistId, loads,
                                [id |-> updates[i].id, status |-> updates[i].status])
  /\ obs' = Obs("updateAppointment", "fail", loadIssued(updates[i].dentistId), "error", FALSE)
  /\ failed' = TRUE
  /\ UNCHANGED <<mounted, clockVars, schedVars, formVars, pageState, serverAppointments,
                 statusChanges, updateCalls, authChanges, kept>>

\* the remote service answers a load with the records it holds at that moment
ServeLoad(i) ==
  /\ mounted = "page" /\ ~effectPending /\ i \in 1..Len(loads)
  /\ loads[i].phase = "sent"
  /\ loads' = [loads EXCEPT ![i] = [@ EXCEPT !.phase = "served", !.data = serverAppointments]]
  /\ obs' = Quiet("other")
  /\ UNCHANGED <<mounted, clockVars, schedVars, formVars, pageState, serverAppointments, updates,
                 statusChanges, updateCalls, authChanges, failed, kept>>

\* lines 63-68, 71-73: both answers of Promise.all arrive
LoadAppointmentsOk(i) ==
  /\ mounted = "page" /\ ~effectPending /\ i \in 1..Len(loads)
  /\ loads[i].phase = "served"
  /\ appointments' = loads[i].data
  /\ pageLoading' = FALSE
  /\ effectPending' = TRUE
  /\ loads' = RemoveAt(loads, i)
  /\ obs' = Quiet("loadAppointments")
  /\ UNCHANGED <<mounted, clockVars, schedVars, formVars, authDentist, filteredAppointments,
                 filter, serverAppointments, updates, statusChanges, updateCalls, authChanges,
                 failed, kept>>

\* lines 69-73: getAppointments or getPatients fails
LoadAppointmentsFail(i) ==
  /\ mounted = "page" /\ ~effectPending /\ i \in 1..Len(loads)
  /\ pageLoading' = FALSE
  /\ loads' = RemoveAt(loads, i)
  /\ obs' = Obs("loadAppointments", "fail", {}, "error", FALSE)
  /\ failed' = TRUE
  /\ kept' = IF shows(appointments, loads[i].revert) THEN kept \cup {loads[i].revert} ELSE kept
  /\ UNCHANGED <<mounted, clockVars, schedVars, formVars, authDentist, appointments,
                 filteredAppointments, filter, effectPending, serverAppointments, updates,
                 statusChanges, updateCalls, authChanges>>

\* the records the remote service holds when the page is mounted
ServerAppointmentsInit ==
  << [id |-> "a1", date |-> [day |-> now.day + 1, tod |-> 0], time |-> "10:00", status |-> "pending"],
     [id |-> "a2", date |-> [day |-> now.day - 1, tod |-> 0], time |-> "09:00", status |-> "pending"],
     [id |-> "a3", date |-> [day |-> now.day + 1, tod |-> 0], time |-> "09:00", status |-> "pending"],
     [id |-> "a4", date |-> [day |-> now.day, tod |-> 0], time |-> "10:00", status |-> "pending"] >>

RowIds == {filteredAppointments[i].id : i \in 1..Len(filteredAppointments)}

InitPage ==
  /\ mounted = "page"
  /\ InitClock
  /\ now.tod = 10 /\ tz = 2
  /\ timeSlots = <<>> /\ ddMode = "none"
  /\ currentMonth = NewDate("month") /\ selectedDate = undefined /\ selectedTime = NoTime
  /\ sched = SchedEvent("other", undefined, FALSE, NoConfirm)
  /\ FormUnmounted
  /\ authDentist \in {"null", DentistId}
  /\ appointments = <<>> /\ filteredAppointments = <<>>
  /\ filter = "all" /\ pageLoading = TRUE /\ effectPending = FALSE
  /\ serverAppointments = ServerAppointmentsInit
  /\ updates = <<>>
  /\ loads = loadAppointments(authDentist, <<>>, NoUpdate)
  /\ statusChanges = 0 /\ updateCalls = 0 /\ authChanges = 0
  /\ failed = FALSE /\ kept = {}

NextPage ==
  \/ ApplyFilterEffect
  \/ \E f \in Filters : SetFilter(f)
  \/ AuthChange
  \/ \E id \in RowIds, st \in Statuses : HandleStatusChange(id, st)
  \/ \E i \in 1..Len(updates) : UpdateAppointmentOk(i)
  \/ \E i \in 1..Len(updates) : UpdateAppointmentFail(i)
  \/ \E i \in 1..Len(loads) : ServeLoad(i)
  \/ \E i \in 1..Len(loads) : LoadAppointmentsOk(i)
  \/ \E i \in 1..Len(loads) : LoadAppointmentsFail(i)
  \/ mounted = "page" /\ Tick

SpecPage == InitPage /\ [][NextPage]_vars

-----------------------------------------------------------------------------
(* Any one of the three components *)

Init == InitSched \/ InitForm \/ InitPage
Next ==
  \/ mounted = "scheduler" /\ NextSched
  \/ mounted = "form" /\ NextForm
  \/ mounted = "page" /\ NextPage
Spec == Init /\ [][Next]_vars

-----------------------------------------------------------------------------
(* Claims *)

\* a step of handleDateSelect, with the date it was given
DateSelectStep == sched' # sched /\ sched'.op = "handleDateSelect"

\* C1: handleDateSelect(d) for a date d that the disabledDates prop rejects, or
\* that has no available slot among the slots in use, leaves selectedDate and
\* selectedTime as they were and does not call onDateChange.
C1_DisabledDateKeepsSelection ==
  [][(DateSelectStep /\ (disabledDates(sched'.date)
                         \/ ~hasAvailableSlots(sched'.date, slotsToUse)))
       => (selectedDate' = selectedDate /\ selectedTime' = selectedTime
           /\ ~sched'.onDateChange)]_vars

\* a date that only disabledDates rejects was pressed while a date and a time
\* were selected
C1_Witness ==
  /\ sched.op = "handleDateSelect"
  /\ disabledDates(sched.date) /\ hasAvailableSlots(sched.date, slotsToUse)
  /\ isDefined(selectedDate) /\ selectedTime # NoTime
  /\ ~sched.onDateChange

\* a date that only lacks an available slot was pressed
C1_WitnessNoSlot ==
  /\ sched.op = "handleDateSelect"
  /\ ~disabledDates(sched.date) /\ ~hasAvailableSlots(sched.date, slotsToUse)
  /\ isDefined(selectedDate) /\ selectedTime # NoTime
  /\ ~sched.onDateChange

\* one of the five fields that handleSubmit requires is empty or undefined
FieldMissing ==
  \/ ~isDefined(date) \/ time = "" \/ serviceId = ""
  \/ patientName = "" \/ patientPhone = ""

\* C2: whenever date, time, serviceId, patientName or patientPhone is empty or
\* undefined, handleSubmit issues no api call, does not call onSuccess, shows
\* an error notification and leaves isLoading false.
C2_PresenceCheckBeforeSubmission ==
  [][(HandleSubmit /\ FieldMissing)
       => /\ obs'.issued = {} /\ calls' = calls /\ run' = run
          /\ ~obs'.onSuccess
          /\ obs'.toast = "error"
          /\ isLoading' = FALSE]_vars

\* handleSubmit was pressed with every field filled in but the phone
C2_Witness ==
  /\ obs.op = "handleSubmit" /\ obs.outcome = "rejected"
  /\ isDefined(date) /\ time # "" /\ serviceId # "" /\ patientName # ""
  /\ patientPhone = ""
  /\ obs.toast = "error" /\ ~isLoading

FormCalls == {"getPatients", "createPatient", "createAppointment"}

\* C3 as stated: every failure of an api call is shown to the user as an error
\* notification.
C3_EveryFailureNotified ==
  obs.outcome = "fail" => obs.toast = "error"

\* C3: every failure of an api call is caught where the call is made and the
\* handler ends; a failure of getPatients, createPatient, createAppointment,
\* getAppointments/getPatients (loadAppointments) or updateAppointment shows an
\* error notification, a failure of getDentist shows nothing and changes
\* nothing, and a failure of getAvailableSlots shows nothing and empties
\* availableSlots.
C3_FailuresCaught ==
  obs.outcome = "fail" =>
    /\ obs.op \in FormCalls \cup {"getDentist", "getAvailableSlots", "loadAppointments",
                                  "updateAppointment"}
    /\ obs.toast = IF obs.op \in {"getDentist", "getAvailableSlots"} THEN "none" ELSE "error"
    /\ ~obs.onSuccess
    /\ obs.op \in FormCalls => run = IdleRun /\ ~isLoading
    /\ obs.op = "getDentist" => dentist = "null" /\ dentistReq = "done"
    /\ obs.op = "getAvailableSlots" => availableSlots = <<>>
    /\ obs.op = "loadAppointments" => ~pageLoading

\* getAvailableSlots failed after an earlier answer had filled availableSlots:
\* the list is emptied and nothing is shown
C3_Witness ==
  /\ obs.op = "getAvailableSlots" /\ obs.outcome = "fail"
  /\ obs.toast = "none" /\ availableSlots = <<>>
  /\ dentist # "null"

\* getDentist failed and nothing is shown
C3_WitnessGetDentist ==
  obs.op = "getDentist" /\ obs.outcome = "fail" /\ obs.toast = "none"

\* C4: no failed call is issued again: createPatient and createAppointment are
\* issued at most once per submission, updateAppointment exactly once per status
\* change made with a dentist present, and the step that handles a failure
\* issues no request, except for the getAppointments/getPatients reload after a
\* failed updateAppointment.
C4_NoRetry ==
  /\ calls.createAppointment <= submits
  /\ calls.createPatient <= submits
  /\ updateCalls = statusChanges
  /\ Len(updates) <= updateCalls
  /\ obs.outcome = "fail" =>
       /\ obs.issued = IF obs.op = "updateAppointment"
                       THEN {"getAppointments", "getPatients"} ELSE {}
       /\ obs.op \in FormCalls => run.pc = "idle"

\* the second of two status changes failed: two updateAppointment calls were
\* issued in all, and the failure issued the reload
C4_Witness ==
  /\ obs.op = "updateAppointment" /\ obs.outcome = "fail"
  /\ statusChanges = 2 /\ updateCalls = 2
  /\ obs.issued = {"getAppointments", "getPatients"}

\* createAppointment failed in the second submission
C4_WitnessForm ==
  /\ obs.op = "createAppointment" /\ obs.outcome = "fail"
  /\ submits = 2 /\ calls.createAppointment = 2 /\ run.pc = "idle"

\* appts with the status of the record id replaced, and nothing else
StatusReplaced(before, after, id, newStatus) ==
  /\ Len(after) = Len(before)
  /\ \A k \in 1..Len(before) :
       after[k] = IF before[k].id = id
                  THEN [id |-> id, date |-> before[k].date, time |-> before[k].time,
                        status |-> newStatus]
                  ELSE before[k]

\* C5: handleStatusChange(id, newStatus) with a dentist present gives newStatus
\* to the appointment id in appointments and in filteredAppointments, in the
\* step that issues updateAppointment, and changes nothing else in the two
\* lists; when updateAppointment settles, with success or with failure, one
\* loadAppointments is issued.  With no dentist the handler changes nothing and
\* issues no request.
C5_OptimisticUpdateThenReload ==
  /\ [][\A id \in RowIds, st \in Statuses :
          HandleStatusChange(id, st) =>
            IF authDentist = "null"
            THEN /\ UNCHANGED <<appointments, filteredAppointments, updates, loads,
                                serverAppointments>>
                 /\ obs'.issued = {}
            ELSE /\ StatusReplaced(appointments, appointments', id, st)
                 /\ StatusReplaced(filteredAppointments, filteredAppointments', id, st)
                 /\ Len(updates') = Len(updates) + 1
                 /\ updates'[Len(updates')].id = id /\ updates'[Len(updates')].status = st
                 /\ obs'.issued = {"updateAppointment"}
                 /\ UNCHANGED <<loads, serverAppointments>>]_vars
  /\ [][obs'.op = "updateAppointment" /\ Len(updates') < Len(updates) =>
          /\ Len(loads') = Len(loads) + 1
          /\ loads'[Len(loads')].phase = "sent"
          /\ obs'.issued = {"getAppointments", "getPatients"}
          /\ UNCHANGED <<appointments, filteredAppointments>>]_vars

\* the lists show the new status while updateAppointment is in flight and the
\* server still holds the old one
C5_Witness ==
  /\ obs.op = "handleStatusChange" /\ obs.issued = {"updateAppointment"}
  /\ updates # <<>>
  /\ LET u == updates[Len(updates)]
     IN  /\ shows(appointments, u) /\ shows(filteredAppointments, u)
         /\ ~shows(serverAppointments, u)

\* handleStatusChange was invoked with no dentist on a row that is shown
C5_WitnessNoDentist ==
  obs.op = "handleStatusChange" /\ obs.issued = {} /\ authDentist = "null"

\* C6 as stated: when updateAppointment fails and the loadAppointments that
\* follows fails too, appointments keeps the optimistic status until the user
\* changes the status of that appointment again.
C6_KeptUnlessItsReloadSucceeds ==
  \A e \in kept : shows(appointments, e)

\* C6: the catch block of handleStatusChange restores nothing by itself: it
\* only issues loadAppointments.  appointments changes only when a
\* loadAppointments succeeds, whichever invocation it is, and then becomes
\* the list the server gave to that load, or when handleStatusChange replaces
\* a status; a failed load changes nothing.  So after a failed update the
\* optimistic status stays as long as no load succeeds.
C6_RollbackOnlyByALoad ==
  [][/\ appointments' # appointments =>
          \/ /\ obs'.op = "loadAppointments" /\ obs'.outcome = "ok"
             /\ \E i \in 1..Len(loads) :
                  loads[i].phase = "served" /\ appointments' = loads[i].data
          \/ /\ obs'.op = "handleStatusChange"
             /\ \E id \in RowIds, st \in Statuses :
                  StatusReplaced(appointments, appointments', id, st)
     /\ obs'.op = "updateAppointment" /\ obs'.outcome = "fail" /\ Len(updates') < Len(updates) =>
          /\ Len(loads') = Len(loads) + 1
          /\ loads'[Len(loads')].revert # NoUpdate]_vars

\* an update failed, the reload that followed failed too, and appointments
\* shows the optimistic status, which the server does not hold
C6_Witness ==
  /\ obs.op = "loadAppointments" /\ obs.outcome = "fail"
  /\ \E e \in kept : shows(appointments, e) /\ ~shows(serverAppointments, e)

\* the two lists hold the same ids with the same status for each id
SameStatuses(a, b) ==
  {[id |-> a[k].id, status |-> a[k].status] : k \in 1..Len(a)}
    = {[id |-> b[k].id, status |-> b[k].status] : k \in 1..Len(b)}

\* C7 as stated: once every request of the status changes made has completed
\* with success, appointments holds the ids and statuses the server holds.
C7_InSyncAfterReloads ==
  (statusChanges > 0 /\ ~failed /\ updates = <<>> /\ loads = <<>>)
    => SameStatuses(appointments, serverAppointments)

\* C8 as stated: the availability of a slot on the day that is selected is the
\* same whether it is computed from the grid's Date of that day or from the
\* selected Date as the slot panel does.
C8_GridMatchesSlotPanel ==
  isDefined(selectedDate) =>
    \A i \in 1..Len(gridDays) :
      isSameDay(gridDays[i], selectedDate) =>
        /\ getDateAvailability(gridDays[i]) = getDateAvailability(selectedDate)
        /\ \A k \in 1..Len(slotsToUse) :
             getTimeSlotAvailability(gridDays[i], slotsToUse[k])
               = getTimeSlotAvailability(selectedDate, slotsToUse[k])

\* some record of the list has the phone
Matches(patients, phone) == \E k \in 1..Len(patients) : patients[k].phone = phone

\* the server holds a record with this id and this phone
PatientExists(id, phone) ==
  \E k \in 1..Len(serverPatients) :
    serverPatients[k].id = id /\ serverPatients[k].phone = phone

\* C9: createPatient is issued when getPatients answers if and only if no
\* record of the answer has the phone entered; a createAppointment in flight
\* carries the id of a record the server holds for that phone, the matching
\* one of the answer or the one createPatient returned; when createPatient
\* returns no patient, createAppointment is not issued and onSuccess is not
\* called.
C9_IdentityFromTheApi ==
  /\ [](/\ run.pc = "createPatient" => ~Matches(run.returned, run.phone)
        /\ run.pc = "createAppointment" =>
             /\ run.patientId # 0
             /\ PatientExists(run.patientId, run.phone)
             /\ IF Matches(run.returned, run.phone)
                THEN /\ run.created = 0
                     /\ \E k \in 1..Len(run.returned) :
                          /\ run.returned[k].id = run.patientId
                          /\ run.returned[k].phone = run.phone
                ELSE run.patientId = run.created
        /\ \A k \in 1..Len(serverBookings) :
             \E j \in 1..Len(serverPatients) :
               serverPatients[j].id = serverBookings[k].patientId
        /\ obs.onSuccess => obs.op = "createAppointment" /\ obs.outcome = "ok")
  /\ [][/\ (run.pc = "getPatients" /\ obs'.op = "getPatients" /\ obs'.outcome = "ok") =>
             /\ ("createPatient" \in obs'.issued) <=> ~Matches(serverPatients, run.phone)
             /\ ("createAppointment" \in obs'.issued) <=> Matches(serverPatients, run.phone)
        /\ (run.pc = "createPatient" /\ obs'.op = "createPatient" /\ obs'.outcome = "none") =>
             /\ obs'.issued = {} /\ ~obs'.onSuccess
             /\ calls' = calls /\ serverBookings' = serverBookings
             /\ run'.pc = "idle"]_vars

\* createPatient returned a new record and createAppointment is in flight with
\* its id
C9_Witness ==
  /\ run.pc = "createAppointment"
  /\ ~Matches(run.returned, run.phone)
  /\ run.created # 0 /\ run.patientId = run.created

\* createPatient returned no patient and the run ended
C9_WitnessNoPatient ==
  obs.op = "createPatient" /\ obs.outcome = "none" /\ run.pc = "idle" /\ obs.toast = "error"

\* the server holds an appointment of the dentist at the date and time of run r
Booked(r) ==
  \E k \in 1..Len(serverBookings) :
    /\ serverBookings[k].dentistId = DentistId
    /\ serverBookings[k].date = r.date /\ serverBookings[k].time = r.time

\* C10: a handleSubmit run that holds a patient issues createAppointment also
\* when the server already holds an appointment with the same dentist, date and
\* time, and the appointment is created with that same dentist, date and time.
C10_NoDoubleBookingPrevention ==
  [][/\ (/\ run.pc \in {"getPatients", "createPatient"}
         /\ obs'.op = run.pc /\ obs'.outcome = "ok"
         /\ Matches(serverPatients', run.phone)
         /\ Booked(run)) =>
          /\ run'.pc = "createAppointment"
          /\ "createAppointment" \in obs'.issued
          /\ run'.date = run.date /\ run'.time = run.time
     /\ (run.pc = "createAppointment" /\ obs'.op = "createAppointment" /\ obs'.outcome = "ok") =>
          /\ Len(serverBookings') = Len(serverBookings) + 1
          /\ LET b == serverBookings'[Len(serverBookings')]
             IN  b.dentistId = DentistId /\ b.date = run.date /\ b.time = run.time]_vars

\* two submissions succeeded with the same dentist, date and time
C10_Witness ==
  /\ Len(serverBookings) = 2
  /\ serverBookings[1].dentistId = serverBookings[2].dentistId
  /\ serverBookings[1].date = serverBookings[2].date
  /\ serverBookings[1].time = serverBookings[2].time
  /\ obs.op = "createAppointment" /\ obs.onSuccess

\* C11: gridDays has 42 entries on consecutive calendar days, the first one is
\* a Sunday, and every day of the month of currentMonth appears exactly once.
C11_GridOfSixWeeks ==
  LET c == YMD(currentMonth.day)
      first == currentMonth.day - (c[3] - 1)
      last == first + DaysInMonth(c[1], c[2]) - 1
      grid == gridDays
      days == [i \in 1..Len(grid) |-> grid[i].day]
  IN  /\ Len(days) = 42
      /\ \A i \in 1..41 : days[i + 1] = days[i] + 1
      /\ getDay(grid[1]) = 0
      /\ \A n \in first..last : Cardinality({i \in 1..42 : days[i] = n}) = 1
      /\ \A i \in 1..42 :
           (YMD(days[i])[1] = c[1] /\ YMD(days[i])[2] = c[2]) => days[i] \in first..last

\* the grid of a month reached by navigation, padded at both ends
C11_Witness ==
  /\ currentMonth.ref = "grid"
  /\ getMonth(currentMonth) # getMonth(NewDate("tmp"))
  /\ getMonth(gridDays[1]) # getMonth(currentMonth)
  /\ getMonth(gridDays[42]) # getMonth(currentMonth)
  /\ Len(gridDays) = 42

\* the appointment satisfies filter f at the present time
Satisfies(apt, f) ==
  CASE f = "all" -> TRUE
    [] f = "today" -> apt.date.day = now.day
    [] f = "upcoming" ->
         apt.date.day > now.day \/ (apt.date.day = now.day /\ apt.date.tod > now.tod)
    [] f = "past" ->
         apt.date.day < now.day \/ (apt.date.day = now.day /\ apt.date.tod < now.tod)

\* list fl holds exactly the records of ap that satisfy f, each once and as it
\* is in ap, in ascending order of date and, for equal dates, of time
ExactlyTheMatching(fl, ap, f) ==
  /\ \A k \in 1..Len(ap) :
       Cardinality({i \in 1..Len(fl) : fl[i] = ap[k]}) = IF Satisfies(ap[k], f) THEN 1 ELSE 0
  /\ \A i \in 1..Len(fl) : \E k \in 1..Len(ap) : fl[i] = ap[k]
  /\ \A i, j \in 1..Len(fl) :
       i < j =>
         \/ fl[i].date.day < fl[j].date.day
         \/ fl[i].date.day = fl[j].date.day /\ fl[i].date.tod < fl[j].date.tod
         \/ fl[i].date = fl[j].date /\ SlotHour(fl[i].time) <= SlotHour(fl[j].time)

\* C12: when the applyFilter effect has run, filteredAppointments holds exactly
\* the appointments of appointments that satisfy the filter, each once and
\* with the status it has in appointments, in ascending order of date and then
\* of time; and until the effect is due again, neither of the two lists nor
\* the filter changes.
C12_FilteredIsTheMatchingList ==
  /\ [][(effectPending /\ ~effectPending') =>
          ExactlyTheMatching(filteredAppointments', appointments', filter')]_vars
  /\ [][(~effectPending /\ ~effectPending') =>
          UNCHANGED <<filteredAppointments, appointments, filter>>]_vars

\* after status changes, the filter 'upcoming' shows the two appointments of
\* tomorrow, the one at 09:00 first though the server lists it last
C12_Witness ==
  /\ ~effectPending /\ statusChanges > 0
  /\ filter = "upcoming"
  /\ Len(appointments) = 4 /\ Len(filteredAppointments) = 2
  /\ filteredAppointments[1].id = "a3" /\ filteredAppointments[2].id = "a1"
  /\ filteredAppointments[1].status # "pending"

\* C13: a handleSubmit run that set isLoading to true sets it back to false
\* in the end, whatever its outcome: isLoading is true exactly while a run is
\* in progress, every run ends, and the step that ends it resets isLoading.
\* onSuccess is called by the step in which createAppointment succeeds, which
\* ends the run, and by no other step.
C13_NoDurableErrorState ==
  /\ (isLoading ~> ~isLoading)
  /\ [](isLoading <=> run.pc # "idle")
  /\ [][obs'.onSuccess <=>
          (run.pc = "createAppointment" /\ obs'.op = "createAppointment"
             /\ obs'.outcome = "ok" /\ run' = IdleRun)]_vars
  /\ [][(obs'.outcome \in {"fail", "none"} /\ run.pc # "idle") =>
          (~isLoading' /\ run' = IdleRun /\ ~obs'.onSuccess)]_vars

\* a run ended by a rejected createAppointment after one that succeeded: the
\* form was submitted again and is ready for a third submission
C13_Witness ==
  /\ obs.op = "createAppointment" /\ obs.outcome = "fail"
  /\ ~isLoading /\ run = IdleRun
  /\ submits = 2 /\ Len(serverBookings) = 1

\* a run ended by createPatient returning no patient
C13_WitnessNoPatient ==
  /\ obs.op = "createPatient" /\ obs.outcome = "none"
  /\ ~isLoading /\ run = IdleRun /\ submits > 0

\* C14: the date and the time a handleSubmit run passes to createAppointment
\* are a pair that one onConfirm call of the scheduler delivered to the form.
C14_SubmitsAConfirmedPair ==
  run.pc = "createAppointment" =>
    \E c \in confirms : isSameDay(c.date, run.date) /\ c.time = run.time

\* C15: in every state of the scheduler, the initial one included, selectedDate
\* is undefined or selectable: disabledDates is false for it and at least one
\* of the slots in use is available on it.
C15_SelectedDateIsSelectable ==
  isDefined(selectedDate) =>
    ~disabledDates(selectedDate) /\ hasAvailableSlots(selectedDate, slotsToUse)

\* the months from year 0 to the month of a Date
MonthIndex(dt) == YMD(dt.day)[1] * 12 + YMD(dt.day)[2]

\* C16: handleNextMonth displays the calendar month right after the one
\* displayed and handlePrevMonth the one right before it: a press moves the
\* displayed month by exactly one month.
C16_NavigationByOneMonth ==
  [][(currentMonth'.ref = "grid" /\ currentMonth'.day # currentMonth.day) =>
       MonthIndex(currentMonth') =
         MonthIndex(currentMonth) + (IF currentMonth'.day > currentMonth.day THEN 1 ELSE -1)]_vars

\* C17: once every getAvailableSlots request has been answered, and none was
\* rejected, availableSlots is the list the service returns for the form's
\* current date.
C17_SlotsOfTheCurrentDate ==
  (mounted = "form" /\ dentist # "null" /\ slotReqs = {} /\ ~slotFailed) =>
    availableSlots = ServerSlots(date)

====
